---- MODULE Spec2Model ----
(***************************************************************************)
(* F4Jumble / F4JumbleInv (src/f4jumble.go): an unkeyed 4-round Feistel    *)
(* network over a byte slice, built from the expanding round function      *)
(* gRound and the compressing round function hRound, both personalized     *)
(* BLAKE2b digests.                                                        *)
(*                                                                         *)
(* Three specifications share the pure operators below:                    *)
(*   Spec     runs F4Jumble / F4JumbleInv round by round on concrete byte  *)
(*            slices, then applies the opposite transform to the result;   *)
(*   LenSpec  runs the control skeleton of the two transforms, everything  *)
(*            that depends only on len(M), up to maxLenM;                  *)
(*   UnitSpec applies xor and gRound to operands drawn from small sets.    *)
(*                                                                         *)
(* blake2b is an external library: it is modelled as a family of           *)
(* deterministic functions of (personalization, output length, input),     *)
(* indexed by a seed, whose constructor and Write may return an error.     *)
(***************************************************************************)
EXTENDS Integers, Sequences, FiniteSets, TLC

VARIABLES
    \* Spec: one call of F4Jumble or F4JumbleInv, then the opposite call
    op,       \* the function running: "F4Jumble" or "F4JumbleInv"
    M,        \* its argument
    orig,     \* the argument of the first call
    phase,    \* 1: the first call, 2: the opposite call on its result
    hashEnv,  \* the hash primitive of this run: [seed, failKind, failPers]
    pc,       \* position in the function
    lenL,     \* local lenL
    lenR,     \* local lenR
    loc,      \* locals a, b, x, y, c, d
    calls,    \* hash invocations of the current call, in order
    xors,     \* operand lengths of the xor calls of the current call
    out,      \* returned slice: [nil, val]
    err,      \* returned error
    \* LenSpec: the control skeleton of one call
    sk,
    \* UnitSpec: one direct call of xor or gRound
    unit

\* ------------------------------------------------------------------------
\* Program constants (src/f4jumble.go:36-40)
\* ------------------------------------------------------------------------
minLenM == 48
maxLenM == 4194368
lenH == 64

\* ------------------------------------------------------------------------
\* Bounds of the model
\* ------------------------------------------------------------------------
\* message lengths tried around minLenM: minLenM-1 .. minLenM+SmallSpan
SmallSpan == 2
\* message lengths tried around 2*lenH: 2*lenH-1 .. 2*lenH+BigSpan
BigSpan == 2
\* message contents tried per length
MsgSeeds == 2
\* members of the hash family tried
HashSeeds == 2
\* longest operand of a direct xor call
MaxXorLen == 3
\* G blocks whose personalization a hash failure may be attached to
FailBlocks == 2
\* LenSpec: lengths tried on each side of minLenM and of 2*lenH
SkSpan == 1
\* UnitSpec: gRound output lengths tried reach GMaxBlocks*lenH + 1
GMaxBlocks == 2

\* ------------------------------------------------------------------------
\* Bytes
\* ------------------------------------------------------------------------
\* Go's uint8(v) for v >= 0
uint8(v) == v % 256

RECURSIVE XorBits(_, _, _)
XorBits(p, q, n) ==
    IF n = 0 THEN 0
    ELSE (((p % 2) + (q % 2)) % 2) + 2 * XorBits(p \div 2, q \div 2, n - 1)

\* Go's ^ on two bytes
BitXor(p, q) == XorBits(p, q, 8)

\* Go's s[lo:hi] (0-based, hi exclusive) on a 1-based sequence
Slice(s, lo, hi) == SubSeq(s, lo + 1, hi)

NoErr == "nil"
ErrInvalidLength == "invalid message length"
ErrNewDigest == "blake2b: NewDigest failed"
ErrWrite == "blake2b: Write failed"

\* ------------------------------------------------------------------------
\* Pure helpers of the source
\* ------------------------------------------------------------------------
\* faulty variant: the division rounds down
ceilDiv_Floor(num, den) == num \div den

ceilDiv(num, den) == (num + den - 1) \div den

min(p, q) == IF p < q THEN p ELSE q

PersPrefix == <<85, 65, 95, 70, 52, 74, 117, 109, 98, 108, 101, 95>>

hPers(i) == PersPrefix \o <<72, uint8(i), 0, 0>>

\* faulty variant: the high byte of the block index is left zero
gPers_LowByteOnly(i, j) == PersPrefix \o <<71, uint8(i), uint8(j % 256), 0>>

gPers(i, j) == PersPrefix \o <<71, uint8(i), uint8(j % 256), uint8(j \div 256)>>

\* ------------------------------------------------------------------------
\* The hash primitive (github.com/gtank/blake2/blake2b), as the source uses
\* it: NewDigest(nil, nil, pers, outLen), Write(u), Sum(nil).
\* hs = [seed, failKind, failPers] is the environment of one run: which
\* function of the family is computed, and which invocation (named by its
\* personalization) fails, in the constructor ("new") or in Write ("write").
\* ------------------------------------------------------------------------
\* what a digest state absorbs from the bytes s[lo..hi]: a position-weighted
\* sum, split in halves to keep the evaluation shallow
RECURSIVE MixRange(_, _, _)
MixRange(s, lo, hi) ==
    IF lo > hi THEN 0
    ELSE IF lo = hi THEN ((lo * lo + 3 * lo + 7) * (s[lo] + 1)) % 65521
    ELSE LET mid == (lo + hi) \div 2
         IN  (MixRange(s, lo, mid) + MixRange(s, mid + 1, hi)) % 65521

Absorb(st, s) == (st * 31 + MixRange(s, 1, Len(s)) + Len(s) + 1) % 65521

NewDigest(hs, pers, outLen) ==
    IF \/ outLen < 1 \/ outLen > lenH \/ Len(pers) # 16
       \/ (hs.failKind = "new" /\ hs.failPers = pers)
    THEN [err |-> ErrNewDigest, pers |-> pers, outLen |-> outLen, st |-> 0]
    ELSE [err |-> NoErr, pers |-> pers, outLen |-> outLen,
          st |-> Absorb(((hs.seed * 257 + outLen) % 65521) + 1, pers)]

\* Write returns (n, err); on an error nothing is absorbed
Write(hs, dg, u) ==
    IF hs.failKind = "write" /\ hs.failPers = dg.pers
    THEN [err |-> ErrWrite, dg |-> dg]
    ELSE [err |-> NoErr, dg |-> [dg EXCEPT !.st = Absorb(dg.st, u)]]

Sum(dg) ==
    [k \in 1..dg.outLen |->
        ((dg.st + 1) * (k + 2) + (dg.st \div 256) + k * k) % 256]

\* what one hash invocation leaves in the log
CallRec(pers, outLen, newErr, writeErr) ==
    [pers |-> pers, outLen |-> outLen, newErr |-> newErr, writeErr |-> writeErr]

\* ------------------------------------------------------------------------
\* xor (src/f4jumble.go:55-63).  i is Go's 0-based loop index.  The loop
\* body at index i runs x[i] ^ y[i] when i <= len(y); with i = len(y) that
\* is an index-out-of-range panic, which ends the loop at the first such i.
\* The iterations are independent, so the loop is written index by index.
\* reads: the number of index positions read before the return or the panic.
\* ------------------------------------------------------------------------
xorGuard(i, y) == i <= Len(y)

xorPanics(x, y) == \E i \in 0..(Len(x) - 1) : xorGuard(i, y) /\ i >= Len(y)

xor(x, y) ==
    IF xorPanics(x, y)
    THEN [panic |-> TRUE, val |-> <<>>, reads |-> Len(y)]
    ELSE [panic |-> FALSE,
          val |-> [k \in 1..Len(x) |->
                     IF xorGuard(k - 1, y) THEN BitXor(x[k], y[k]) ELSE 0],
          reads |-> Cardinality({i \in 0..(Len(x) - 1) : xorGuard(i, y)})]

\* ------------------------------------------------------------------------
\* gRound (src/f4jumble.go:65-84)
\* ------------------------------------------------------------------------
gInner(hs, i, u, j) ==
    LET g == NewDigest(hs, gPers(i, j), lenH)
        w == Write(hs, g, u)
    IN  IF g.err # NoErr
        THEN [err |-> g.err, val |-> <<>>,
              call |-> CallRec(g.pers, lenH, g.err, NoErr)]
        ELSE [err |-> NoErr, val |-> Sum(w.dg),
              call |-> CallRec(g.pers, lenH, NoErr, w.err)]

\* result[:outLen] with outLen > len(result) is a slice-bounds panic (the
\* spare capacity append may leave is not counted on)
RECURSIVE gLoop(_, _, _, _, _, _, _)
gLoop(hs, i, u, outLen, j, result, log) ==
    IF j < ceilDiv(outLen, lenH)
    THEN LET hash == gInner(hs, i, u, j)
         IN  IF hash.err # NoErr
             THEN [err |-> hash.err, val |-> <<>>, panic |-> FALSE,
                   calls |-> Append(log, hash.call)]
             ELSE gLoop(hs, i, u, outLen, j + 1, result \o hash.val,
                        Append(log, hash.call))
    ELSE IF outLen > Len(result)
         THEN [err |-> NoErr, val |-> <<>>, panic |-> TRUE, calls |-> log]
         ELSE [err |-> NoErr, val |-> Slice(result, 0, outLen),
               panic |-> FALSE, calls |-> log]

\* faulty variant: the blocks are returned whole, without result[:outLen]
gRound_NoTruncate(hs, i, u, outLen) ==
    gLoop(hs, i, u, ceilDiv(outLen, lenH) * lenH, 0, <<>>, <<>>)

gRound(hs, i, u, outLen) == gLoop(hs, i, u, outLen, 0, <<>>, <<>>)

\* ------------------------------------------------------------------------
\* hRound (src/f4jumble.go:86-94)
\* ------------------------------------------------------------------------
hRound(hs, i, u, outLen) ==
    LET h == NewDigest(hs, hPers(i), outLen)
        w == Write(hs, h, u)
    IN  IF h.err # NoErr
        THEN [err |-> h.err, val |-> <<>>, panic |-> FALSE,
              calls |-> <<CallRec(h.pers, outLen, h.err, NoErr)>>]
        ELSE [err |-> NoErr, val |-> Sum(w.dg), panic |-> FALSE,
              calls |-> <<CallRec(h.pers, outLen, NoErr, w.err)>>]

\* ------------------------------------------------------------------------
\* Length policy of F4Jumble and F4JumbleInv
\* ------------------------------------------------------------------------
\* faulty variant: both bounds of the length check are exclusive
InvalidLen_OffByOne(lenM) == lenM <= minLenM \/ lenM >= maxLenM

InvalidLen(lenM) == lenM < minLenM \/ lenM > maxLenM

\* faulty variant: the left part is not capped at lenH
SplitL_NoCap(lenM) == lenM \div 2

SplitL(lenM) == min(lenH, lenM \div 2)

SplitR(lenM) == lenM - SplitL(lenM)

\* ------------------------------------------------------------------------
\* Spec: F4Jumble and F4JumbleInv on byte slices
\* ------------------------------------------------------------------------
vars == <<op, M, orig, phase, hashEnv, pc, lenL, lenR, loc, calls, xors,
          out, err, sk, unit>>

Nil == [nil |-> TRUE, val |-> <<>>]
Some(s) == [nil |-> FALSE, val |-> s]

NoLocals == [a |-> <<>>, b |-> <<>>, x |-> <<>>, y |-> <<>>, c |-> <<>>, d |-> <<>>]

IdleSk == [pc |-> "idle"]
IdleUnit == [fn |-> "idle"]

\* message lengths tried: around minLenM (one G block), around 2*lenH (the
\* second G block appears at 2*lenH+1), and 3*lenH+1 (a third G block)
TestLens ==
    ((minLenM - 1)..(minLenM + SmallSpan))
        \cup ((2 * lenH - 1)..(2 * lenH + BigSpan))
        \cup {3 * lenH + 1}

Msg(n, ms) == [k \in 1..n |-> (ms * 101 + k * 37 + k * k) % 256]

FailPers ==
    {hPers(0), hPers(1)}
        \cup {gPers(i, j) : i \in {0, 1}, j \in 0..(FailBlocks - 1)}

HashEnvs ==
    [seed : 0..(HashSeeds - 1), failKind : {"none"}, failPers : {<<>>}]
        \cup [seed : 0..(HashSeeds - 1), failKind : {"new", "write"},
              failPers : FailPers]

Init ==
    /\ op \in {"F4Jumble", "F4JumbleInv"}
    /\ \E n \in TestLens, ms \in 0..(MsgSeeds - 1) : M = Msg(n, ms)
    /\ orig = M
    /\ phase = 1
    /\ hashEnv \in HashEnvs
    /\ pc = "start"
    /\ lenL = 0
    /\ lenR = 0
    /\ loc = NoLocals
    /\ calls = <<>>
    /\ xors = <<>>
    /\ out = Nil
    /\ err = NoErr
    /\ sk = IdleSk
    /\ unit = IdleUnit

\* faulty variant: the round function's error is dropped (return nil, nil)
RoundStep_SwallowsErr(rf, v, dst, nxt) ==
    LET r == xor(v, rf.val)
    IN  /\ calls' = calls \o rf.calls
        /\ IF rf.panic
           THEN pc' = "panic" /\ UNCHANGED <<loc, xors, out, err>>
           ELSE IF rf.err # NoErr
           THEN /\ pc' = "done"
                /\ out' = Nil
                /\ err' = NoErr
                /\ UNCHANGED <<loc, xors>>
           ELSE /\ xors' = Append(xors, <<Len(v), Len(rf.val)>>)
                /\ IF r.panic
                   THEN pc' = "panic" /\ UNCHANGED loc
                   ELSE pc' = nxt /\ loc' = [loc EXCEPT ![dst] = r.val]
                /\ UNCHANGED <<out, err>>
        /\ UNCHANGED <<op, M, orig, phase, hashEnv, lenL, lenR, sk, unit>>

\* rf, err := round(...); if err != nil { return nil, err }; dst := xor(v, rf)
RoundStep(rf, v, dst, nxt) ==
    LET r == xor(v, rf.val)
    IN  /\ calls' = calls \o rf.calls
        /\ IF rf.panic
           THEN pc' = "panic" /\ UNCHANGED <<loc, xors, out, err>>
           ELSE IF rf.err # NoErr
           THEN /\ pc' = "done"
                /\ out' = Nil
                /\ err' = rf.err
                /\ UNCHANGED <<loc, xors>>
           ELSE /\ xors' = Append(xors, <<Len(v), Len(rf.val)>>)
                /\ IF r.panic
                   THEN pc' = "panic" /\ UNCHANGED loc
                   ELSE pc' = nxt /\ loc' = [loc EXCEPT ![dst] = r.val]
                /\ UNCHANGED <<out, err>>
        /\ UNCHANGED <<op, M, orig, phase, hashEnv, lenL, lenR, sk, unit>>

\* lines 122-131 / 178-186: the length check and the split
BeginStep(left, right, nxt) ==
    /\ IF InvalidLen(Len(M))
       THEN /\ pc' = "done"
            /\ out' = Nil
            /\ err' = ErrInvalidLength
            /\ UNCHANGED <<lenL, lenR, loc>>
       ELSE /\ lenL' = SplitL(Len(M))
            /\ lenR' = SplitR(Len(M))
            /\ loc' = [loc EXCEPT ![left] = Slice(M, 0, lenL'),
                                  ![right] = Slice(M, lenL', Len(M))]
            /\ pc' = nxt
            /\ UNCHANGED <<out, err>>
    /\ UNCHANGED <<op, M, orig, phase, hashEnv, calls, xors, sk, unit>>

\* faulty variant: only the right part is returned
ReturnStep_NoLeft(left, right) ==
    /\ pc' = "done"
    /\ out' = Some(right)
    /\ err' = NoErr
    /\ UNCHANGED <<op, M, orig, phase, hashEnv, lenL, lenR, loc, calls, xors,
                   sk, unit>>

\* return append(left, right...), nil
ReturnStep(left, right) ==
    /\ pc' = "done"
    /\ out' = Some(left \o right)
    /\ err' = NoErr
    /\ UNCHANGED <<op, M, orig, phase, hashEnv, lenL, lenR, loc, calls, xors,
                   sk, unit>>

JumbleBegin == op = "F4Jumble" /\ pc = "start" /\ BeginStep("a", "b", "g0")

JumbleG0 ==
    /\ op = "F4Jumble" /\ pc = "g0"
    /\ RoundStep(gRound(hashEnv, 0, loc.a, lenR), loc.b, "x", "h0")

JumbleH0 ==
    /\ op = "F4Jumble" /\ pc = "h0"
    /\ RoundStep(hRound(hashEnv, 0, loc.x, lenL), loc.a, "y", "g1")

JumbleG1 ==
    /\ op = "F4Jumble" /\ pc = "g1"
    /\ RoundStep(gRound(hashEnv, 1, loc.y, lenR), loc.x, "d", "h1")

JumbleH1 ==
    /\ op = "F4Jumble" /\ pc = "h1"
    /\ RoundStep(hRound(hashEnv, 1, loc.d, lenL), loc.y, "c", "ret")

\* faulty variant: the right part d is placed first
JumbleReturn_RightFirst ==
    op = "F4Jumble" /\ pc = "ret" /\ ReturnStep(loc.d, loc.c)

JumbleReturn == op = "F4Jumble" /\ pc = "ret" /\ ReturnStep(loc.c, loc.d)

InvBegin == op = "F4JumbleInv" /\ pc = "start" /\ BeginStep("c", "d", "h1")

InvH1 ==
    /\ op = "F4JumbleInv" /\ pc = "h1"
    /\ RoundStep(hRound(hashEnv, 1, loc.d, lenL), loc.c, "y", "g1")

\* faulty variant: the third-round G is undone with round index 0
InvG1_Round0 ==
    /\ op = "F4JumbleInv" /\ pc = "g1"
    /\ RoundStep(gRound(hashEnv, 0, loc.y, lenR), loc.d, "x", "h0")

InvG1 ==
    /\ op = "F4JumbleInv" /\ pc = "g1"
    /\ RoundStep(gRound(hashEnv, 1, loc.y, lenR), loc.d, "x", "h0")

InvH0 ==
    /\ op = "F4JumbleInv" /\ pc = "h0"
    /\ RoundStep(hRound(hashEnv, 0, loc.x, lenL), loc.y, "a", "g0")

InvG0 ==
    /\ op = "F4JumbleInv" /\ pc = "g0"
    /\ RoundStep(gRound(hashEnv, 0, loc.a, lenR), loc.x, "b", "ret")

InvReturn == op = "F4JumbleInv" /\ pc = "ret" /\ ReturnStep(loc.a, loc.b)

Opposite(f) == IF f = "F4Jumble" THEN "F4JumbleInv" ELSE "F4Jumble"

\* the caller of the package documentation: the result of one transform is
\* handed to the other.  Only a run whose hash never fails goes on.
Reapply ==
    /\ pc = "done" /\ phase = 1 /\ err = NoErr /\ hashEnv.failKind = "none"
    /\ op' = Opposite(op)
    /\ M' = out.val
    /\ phase' = 2
    /\ pc' = "start"
    /\ lenL' = 0
    /\ lenR' = 0
    /\ loc' = NoLocals
    /\ calls' = <<>>
    /\ xors' = <<>>
    /\ out' = Nil
    /\ err' = NoErr
    /\ UNCHANGED <<orig, hashEnv, sk, unit>>

Next ==
    \/ JumbleBegin \/ JumbleG0 \/ JumbleH0 \/ JumbleG1 \/ JumbleH1
    \/ JumbleReturn
    \/ InvBegin \/ InvH1 \/ InvG1 \/ InvH0 \/ InvG0 \/ InvReturn
    \/ Reapply

Spec == Init /\ [][Next]_vars

\* ------------------------------------------------------------------------
\* LenSpec: the control skeleton of F4Jumble / F4JumbleInv.  The length
\* check, the split, the number of G blocks, the personalization of every
\* hash invocation and the lengths of all slices depend on len(M) only, so
\* the skeleton runs on len(M), with a hash that never fails, up to maxLenM.
\* sk.j is the loop variable of gRound; kind, i, blk, tag, at describe the
\* latest hash invocation (round function, round index, block index, the
\* personalization passed to NewDigest, the round's position in the call).
\* ------------------------------------------------------------------------
IdleOp == "idle"

Rounds(f) ==
    IF f = "F4Jumble"
    THEN <<[kind |-> "G", i |-> 0], [kind |-> "H", i |-> 0],
           [kind |-> "G", i |-> 1], [kind |-> "H", i |-> 1]>>
    ELSE <<[kind |-> "H", i |-> 1], [kind |-> "G", i |-> 1],
           [kind |-> "H", i |-> 0], [kind |-> "G", i |-> 0]>>

SkLens ==
    {0}
        \cup ((minLenM - SkSpan)..(minLenM + SkSpan))
        \cup ((2 * lenH - SkSpan)..(2 * lenH + SkSpan))
        \cup {maxLenM - 1, maxLenM, maxLenM + 1}

SkStart(f, n) ==
    [pc |-> "start", op |-> f, lenM |-> n, lenL |-> 0, lenR |-> 0,
     pos |-> 0, j |-> 0, kind |-> "none", i |-> 0, blk |-> 0, tag |-> <<>>,
     at |-> 0, nHash |-> 0, nXor |-> 0, err |-> NoErr,
     outLen |-> -1]

SkInit ==
    /\ sk \in {SkStart(f, n) : f \in {"F4Jumble", "F4JumbleInv"}, n \in SkLens}
    /\ op = IdleOp
    /\ M = <<>>
    /\ orig = <<>>
    /\ phase = 0
    /\ hashEnv = [seed |-> 0, failKind |-> "none", failPers |-> <<>>]
    /\ pc = "idle"
    /\ lenL = 0
    /\ lenR = 0
    /\ loc = NoLocals
    /\ calls = <<>>
    /\ xors = <<>>
    /\ out = Nil
    /\ err = NoErr
    /\ unit = IdleUnit

SkRest == <<op, M, orig, phase, hashEnv, pc, lenL, lenR, loc, calls, xors,
            out, err, unit>>

\* after round sk.pos: the next round, or the return
SkAdvance(r) ==
    IF r.pos = 4 THEN [r EXCEPT !.pc = "ret"]
    ELSE [r EXCEPT !.pos = r.pos + 1, !.j = 0]

\* lines 122-128 / 178-183
SkBegin ==
    /\ sk.pc = "start"
    /\ sk' = IF InvalidLen(sk.lenM)
             THEN [sk EXCEPT !.pc = "done", !.err = ErrInvalidLength]
             ELSE [sk EXCEPT !.pc = "round", !.pos = 1, !.j = 0,
                             !.lenL = SplitL(sk.lenM),
                             !.lenR = SplitR(sk.lenM)]
    /\ UNCHANGED SkRest

\* hRound and the xor that follows it: the digest has lenL bytes, the other
\* operand (a, y or c) has lenL bytes
SkHRound ==
    /\ sk.pc = "round" /\ Rounds(sk.op)[sk.pos].kind = "H"
    /\ LET i == Rounds(sk.op)[sk.pos].i
           r == [sk EXCEPT !.kind = "H", !.i = i, !.blk = 0,
                           !.tag = hPers(i), !.at = sk.pos,
                           !.nHash = sk.nHash + 1]
       IN  sk' = IF sk.lenL < 1 \/ sk.lenL > lenH
                 THEN [r EXCEPT !.pc = "done", !.err = ErrNewDigest]
                 ELSE SkAdvance([r EXCEPT !.nXor = sk.nXor + 1])
    /\ UNCHANGED SkRest

\* one iteration of gRound's loop (lines 76-82)
SkGBlock ==
    /\ sk.pc = "round" /\ Rounds(sk.op)[sk.pos].kind = "G"
    /\ sk.j < ceilDiv(sk.lenR, lenH)
    /\ LET i == Rounds(sk.op)[sk.pos].i
       IN  sk' = [sk EXCEPT !.kind = "G", !.i = i, !.blk = sk.j,
                            !.tag = gPers(i, sk.j), !.at = sk.pos,
                            !.nHash = sk.nHash + 1, !.j = sk.j + 1]
    /\ UNCHANGED SkRest

\* the end of gRound's loop, result[:lenR] (line 83) and the xor that
\* follows: result has j*lenH bytes, the other operand (b, x or d) lenR
SkGDone ==
    /\ sk.pc = "round" /\ Rounds(sk.op)[sk.pos].kind = "G"
    /\ ~(sk.j < ceilDiv(sk.lenR, lenH))
    /\ sk' = IF sk.lenR > sk.j * lenH
             THEN [sk EXCEPT !.pc = "panic"]
             ELSE SkAdvance([sk EXCEPT !.nXor = sk.nXor + 1])
    /\ UNCHANGED SkRest

\* lines 157 / 212
SkReturn ==
    /\ sk.pc = "ret"
    /\ sk' = [sk EXCEPT !.pc = "done", !.outLen = sk.lenL + sk.lenR]
    /\ UNCHANGED SkRest

SkNext == SkBegin \/ SkHRound \/ SkGBlock \/ SkGDone \/ SkReturn

LenSpec == SkInit /\ [][SkNext]_vars

\* ------------------------------------------------------------------------
\* UnitSpec: xor and gRound called directly, on operands drawn from small
\* sets (the transforms only ever pass xor equal-length operands).
\* ------------------------------------------------------------------------
UnitBytes == {0, 90, 255}

RECURSIVE SeqsUpTo(_, _)
SeqsUpTo(S, n) ==
    IF n = 0 THEN {<<>>}
    ELSE LET shorter == SeqsUpTo(S, n - 1)
         IN  shorter \cup {Append(t, e) : t \in {q \in shorter : Len(q) = n - 1},
                                          e \in S}

GOutLens ==
    {0, 1} \cup {k * lenH + e : k \in 1..GMaxBlocks, e \in {-1, 0, 1}}

NoHashFail == [seed |-> 0, failKind |-> "none", failPers |-> <<>>]

UnitArgs(f, x, y, i, u, n) ==
    [fn |-> f, done |-> FALSE, x |-> x, y |-> y, i |-> i, u |-> u,
     outLen |-> n, res |-> <<>>]

UnitInit ==
    /\ \/ /\ \E x \in SeqsUpTo(UnitBytes, MaxXorLen),
                y \in SeqsUpTo(UnitBytes, MaxXorLen) :
                 unit = UnitArgs("xor", x, y, 0, <<>>, 0)
          /\ hashEnv = NoHashFail
       \/ /\ \E i \in {0, 1}, u \in {<<>>, <<7, 0, 255>>}, n \in GOutLens :
                 unit = UnitArgs("gRound", <<>>, <<>>, i, u, n)
          /\ hashEnv \in HashEnvs
    /\ op = IdleOp
    /\ M = <<>>
    /\ orig = <<>>
    /\ phase = 0
    /\ pc = "idle"
    /\ lenL = 0
    /\ lenR = 0
    /\ loc = NoLocals
    /\ calls = <<>>
    /\ xors = <<>>
    /\ out = Nil
    /\ err = NoErr
    /\ sk = IdleSk

UnitRest == <<op, M, orig, phase, hashEnv, pc, lenL, lenR, loc, calls, xors,
              out, err, sk>>

CallXor ==
    /\ unit.fn = "xor" /\ ~unit.done
    /\ unit' = [unit EXCEPT !.done = TRUE, !.res = xor(unit.x, unit.y)]
    /\ UNCHANGED UnitRest

CallGRound ==
    /\ unit.fn = "gRound" /\ ~unit.done
    /\ unit' = [unit EXCEPT !.done = TRUE,
                            !.res = gRound(hashEnv, unit.i, unit.u, unit.outLen)]
    /\ UNCHANGED UnitRest

UnitNext == CallXor \/ CallGRound

UnitSpec == UnitInit /\ [][UnitNext]_vars

\* ------------------------------------------------------------------------
\* Properties of Spec
\* ------------------------------------------------------------------------
NewFailed(k) == calls[k].newErr # NoErr
WriteFailed(k) == calls[k].writeErr # NoErr
NoHashFailure == \A k \in DOMAIN calls : ~NewFailed(k) /\ ~WriteFailed(k)
ValidLen == 48 <= Len(M) /\ Len(M) <= 4194368

\* C1: F4Jumble and F4JumbleInv are mutual inverses: when the opposite
\* transform has been applied to the result of the first call (hash never
\* failing), it returns the argument of the first call, for either order of
\* the two transforms and every member of the hash family.
C1_RoundTrip ==
    (phase = 2 /\ pc = "done")
        => (err = NoErr /\ ~out.nil /\ out.val = orig)

C1_Witness ==
    /\ phase = 2 /\ pc = "done" /\ op = "F4JumbleInv"
    /\ Len(orig) = 2 * lenH + 1
    /\ M # orig
    /\ out.val = orig

\* C2: on a valid-length message with no hash failure, the returned slice
\* of either transform has exactly len(M) bytes.
C2_LengthPreserved ==
    (pc = "done" /\ ValidLen /\ NoHashFailure)
        => (~out.nil /\ Len(out.val) = Len(M))

C2_Witness ==
    /\ pc = "done" /\ phase = 1 /\ op = "F4Jumble" /\ ~out.nil
    /\ Len(M) = 3 * lenH + 1
    /\ Len(out.val) = 3 * lenH + 1

PointwiseXor(s, t) == [k \in 1..Len(s) |-> BitXor(s[k], t[k])]
PersOf(log) == [k \in DOMAIN log |-> log[k].pers]

C5_ForwardWiring ==
    (pc = "done" /\ op = "F4Jumble" /\ ValidLen /\ NoHashFailure) =>
        LET nL == IF 64 < Len(M) \div 2 THEN 64 ELSE Len(M) \div 2
            nR == Len(M) - nL
            a  == SubSeq(M, 1, nL)
            b  == SubSeq(M, nL + 1, Len(M))
            g0 == gRound(hashEnv, 0, a, nR)
            x  == PointwiseXor(b, g0.val)
            h0 == hRound(hashEnv, 0, x, nL)
            y  == PointwiseXor(a, h0.val)
            g1 == gRound(hashEnv, 1, y, nR)
            d  == PointwiseXor(x, g1.val)
            h1 == hRound(hashEnv, 1, d, nL)
            c  == PointwiseXor(y, h1.val)
        IN  /\ ~out.nil
            /\ out.val = c \o d
            /\ PersOf(calls)
                 = PersOf(g0.calls) \o PersOf(h0.calls)
                     \o PersOf(g1.calls) \o PersOf(h1.calls)

C5_Witness ==
    /\ pc = "done" /\ op = "F4Jumble" /\ phase = 1 /\ ~out.nil
    /\ NoHashFailure
    /\ Len(M) = 2 * lenH + 2
    /\ out.val # M
    /\ SubSeq(out.val, 1, lenL) = loc.c
    /\ loc.c # loc.d

\* C8: every xor call of either transform gets two operands of the same
\* length and never panics; x, d (and b) hold exactly lenR bytes and y, c
\* (and a) exactly lenL bytes once assigned; a call that returns a result
\* has made exactly four xor calls.
C8_XorOperandsEqual ==
    /\ pc # "panic"
    /\ \A k \in DOMAIN xors : xors[k][1] = xors[k][2]
    /\ \A f \in {"x", "d", "b"} : Len(loc[f]) \in {0, lenR}
    /\ \A f \in {"y", "c", "a"} : Len(loc[f]) \in {0, lenL}
    /\ (pc = "done" /\ ~out.nil) =>
           /\ Len(xors) = 4
           /\ \A f \in {"x", "d", "b"} : Len(loc[f]) = lenR
           /\ \A f \in {"y", "c", "a"} : Len(loc[f]) = lenL

C8_Witness ==
    /\ pc = "done" /\ op = "F4JumbleInv" /\ ~out.nil
    /\ Len(xors) = 4
    /\ lenL = lenH /\ lenR = 2 * lenH + 1
    /\ Len(loc.x) = lenR /\ Len(loc.a) = lenL

\* ------------------------------------------------------------------------
\* Properties of LenSpec
\* ------------------------------------------------------------------------
\* C3: either transform returns the invalid-length error and a nil slice
\* exactly when len(M) < 48 or len(M) > 4194368, and has then made no hash
\* invocation and no xor call.
C3_LengthValidation ==
    /\ sk.pc = "done" =>
           ((sk.lenM < 48 \/ sk.lenM > 4194368)
                <=> (sk.err = ErrInvalidLength /\ sk.outLen = -1))
    /\ sk.pc = "done" =>
           ((48 <= sk.lenM /\ sk.lenM <= 4194368)
                <=> (sk.err = NoErr /\ sk.outLen >= 0))
    /\ sk.err = ErrInvalidLength => (sk.nHash = 0 /\ sk.nXor = 0)

C3_Witness ==
    /\ sk.pc = "done" /\ sk.lenM = 4194369
    /\ sk.err = ErrInvalidLength /\ sk.outLen = -1 /\ sk.nHash = 0

\* C6: once past the length check, both transforms hold
\* lenL = min(64, floor(n/2)) and lenR = n - lenL, so lenL <= 64,
\* lenL + lenR = n and lenR >= lenL.
C6_SplitInvariant ==
    (sk.pc \in {"round", "ret", "done"} /\ sk.err = NoErr) =>
        /\ 48 <= sk.lenM /\ sk.lenM <= 4194368
        /\ sk.lenL = (IF 64 <= sk.lenM \div 2 THEN 64 ELSE sk.lenM \div 2)
        /\ sk.lenR = sk.lenM - sk.lenL
        /\ sk.lenL <= 64
        /\ sk.lenL + sk.lenR = sk.lenM
        /\ sk.lenR >= sk.lenL

C6_Witness ==
    /\ sk.pc = "done" /\ sk.op = "F4JumbleInv" /\ sk.lenM = 129
    /\ sk.lenL = 64 /\ sk.lenR = 65

\* C10: the personalizations of the hash invocations of one call are
\* pairwise distinct.  Every invocation's tag gives back its round function,
\* round index and block index (so equal tags mean equal indices), its
\* block index is at most 65535, and the indices give back the invocation's
\* rank in the call (so equal indices mean the same invocation).
SkBlocks == (sk.lenR + 63) \div 64

SkRankBefore(p) ==
    LET cost(q) == IF Rounds(sk.op)[q].kind = "G" THEN SkBlocks ELSE 1
    IN  IF p = 1 THEN 0
        ELSE IF p = 2 THEN cost(1)
        ELSE IF p = 3 THEN cost(1) + cost(2)
        ELSE cost(1) + cost(2) + cost(3)

SkPosOf(kind, i) ==
    CHOOSE p \in 1..4 : Rounds(sk.op)[p] = [kind |-> kind, i |-> i]

C10_TagsDistinct ==
    sk.nHash > 0 =>
        /\ Len(sk.tag) = 16
        /\ sk.tag[13] = (IF sk.kind = "G" THEN 71 ELSE 72)
        /\ sk.tag[14] = sk.i
        /\ sk.tag[15] + 256 * sk.tag[16] = sk.blk
        /\ sk.blk <= 65535
        /\ sk.nHash = SkRankBefore(SkPosOf(sk.kind, sk.i)) + sk.blk + 1

C10_Witness ==
    /\ sk.lenM = 4194368 /\ sk.kind = "G" /\ sk.i = 1 /\ sk.blk = 65535
    /\ sk.tag[15] = 255 /\ sk.tag[16] = 255
    /\ sk.nHash > 65536

\* ------------------------------------------------------------------------
\* Properties of UnitSpec
\* ------------------------------------------------------------------------
\* C7 as stated: xor(x, y) returns len(x) bytes, byte i being x[i] XOR y[i],
\* when the lengths are equal; fails (panics) whenever they differ; and
\* reads no index at or beyond the shorter operand's length.
C7_XorContract ==
    (unit.fn = "xor" /\ unit.done) =>
        /\ Len(unit.x) = Len(unit.y) =>
               /\ ~unit.res.panic
               /\ unit.res.val = PointwiseXor(unit.x, unit.y)
        /\ Len(unit.x) # Len(unit.y) => unit.res.panic
        /\ unit.res.reads <= Len(unit.x)
        /\ unit.res.reads <= Len(unit.y)

\* C9: gRound(i, u, outLen) with outLen >= 1 and no hash failure makes
\* exactly ceil(outLen/64) hash invocations, block j under gPers(i, j) with
\* digest length 64 on input u, and returns the first outLen bytes of the
\* blocks concatenated in increasing j.
GBlock(i, u, j) == Sum(Write(hashEnv, NewDigest(hashEnv, gPers(i, j), 64), u).dg)

C9_GRoundExpands ==
    (unit.fn = "gRound" /\ unit.done /\ unit.outLen >= 1
       /\ hashEnv.failKind = "none") =>
        LET n  == unit.outLen
            nb == CHOOSE b \in 1..n : b * 64 >= n /\ (b - 1) * 64 < n
        IN  /\ unit.res.err = NoErr
            /\ ~unit.res.panic
            /\ Len(unit.res.calls) = nb
            /\ \A j \in 0..(nb - 1) :
                   /\ unit.res.calls[j + 1].pers = gPers(unit.i, j)
                   /\ unit.res.calls[j + 1].outLen = 64
            /\ Len(unit.res.val) = n
            /\ \A k \in 1..n :
                   unit.res.val[k]
                     = GBlock(unit.i, unit.u, (k - 1) \div 64)[((k - 1) % 64) + 1]

C9_Witness ==
    /\ unit.fn = "gRound" /\ unit.done /\ hashEnv.failKind = "none"
    /\ unit.outLen = 65
    /\ Len(unit.res.calls) = 2
    /\ Len(unit.res.val) = 65
    /\ unit.res.val[65] = GBlock(unit.i, unit.u, 1)[1]
    /\ GBlock(unit.i, unit.u, 1) # GBlock(unit.i, unit.u, 0)

====
